---- MODULE Spec2Model ----
(***************************************************************************)
(* SafeHer: the browser-local persistence layer (IndexedDB object stores   *)
(* behind DatabaseManager), the session pointer kept in localStorage, the  *)
(* offline request queue of APIService and the domain managers built on    *)
(* them (UserManager, PreferencesManager, ContactsManager, SOSManager,     *)
(* LocationManager, NavigationManager).                                    *)
(*                                                                         *)
(* One step of the model is one task of the browser's event loop: the      *)
(* completion of a database request, of a fetch, of a dialog or of a timer *)
(* together with the synchronous code that follows it up to the next       *)
(* await.  Toasts, logging, DOM updates and ISO timestamps carry no state  *)
(* the managers read back and are left out of the records.                 *)
(***************************************************************************)
EXTENDS Integers, Sequences, FiniteSets, TLC

(***************************************************************************)
(* Bounds of the model.                                                    *)
(***************************************************************************)
MaxQueue == 3
MaxPasses == 1
MaxUsers == 2
MaxContacts == 3
MaxAlerts == 2
MaxPrefs == 3
MaxCalls == 2
MaxTimers == 2
MaxRatings == 3
MaxResponders == 6
MaxRecords == 2
MaxTime == 2
MaxZones == 2
MaxEvidence == 3
MaxVersion == 3

(***************************************************************************)
(* Values.                                                                 *)
(***************************************************************************)
\* phone numbers accepted by Utils.isValidPhone
Phones == {"5550001111", "5550002222"}
\* a string Utils.isValidPhone rejects
BadPhone == "12"
\* phone_number: null of a guest user
NoPhone == "null"
\* absent record id; IndexedDB key generators start at 1
NoId == 0
\* latitude / longitude null or undefined
NoCoord == 0 - 1
\* created_at undefined
NoTime == 0 - 1
\* the number NaN, which undefined becomes in arithmetic
NaN == 0 - 1
\* the longitude every position of the model has, 78 degrees east
Meridian == 780000
\* positions in units of 1e-4 degree on one meridian
Points == {100000, 100003}
\* types of the events posted to CONFIG.API_ENDPOINTS.CATCH
ReqTypes == {"location", "sos_alert"}
\* ways a fetch ends: resolved and ok, rejected, resolved but !response.ok,
\* resolved with a body response.json() cannot parse
Outcomes == {"ok", "network_error", "not_ok", "bad_json"}
Themes == {"dark", "light"}
Passes == 1..MaxPasses
Calls == 1..MaxCalls

VARIABLES
  \* IndexedDB object stores (sets of records keyed by id) and their key generators
  users, emergency_contacts, sos_alerts, user_preferences, location_history,
  safe_zones, community_responders, evidence, nextId,
  \* the object stores of the database with their indexes, the version it was last opened at
  objectStores, dbVersion,
  \* the ids dbManager.add has returned for community_responders so far
  issued,
  \* Date.now(), in ticks
  now,
  \* the argument of the last DatabaseManager call and the record its get returned
  given, got,
  \* the array the last list operation returned
  list,
  \* localStorage
  lsCurrentUser, lsOfflineQueue,
  \* UserManager
  currentUser,
  \* PreferencesManager
  preferences,
  \* APIService
  offlineQueue, online, pass,
  \* SOSManager and its interval timers
  currentAlert, countdownInterval, timers, nextTimer,
  \* NavigationManager
  currentScreen,
  \* pending asynchronous calls of the managers
  calls,
  \* what the last step returned to its caller
  result

\* the stores and values only the community, evidence, safe zone and list
\* operations write
moreVars == <<safe_zones, community_responders, evidence, issued, now, given, got, list>>
dbVars == <<users, emergency_contacts, sos_alerts, user_preferences, location_history, moreVars, nextId>>
sessionVars == <<lsCurrentUser, currentUser>>
queueVars == <<lsOfflineQueue, offlineQueue>>
schemaVars == <<objectStores, dbVersion>>
sosVars == <<currentAlert, countdownInterval, timers, nextTimer, currentScreen>>
vars == <<dbVars, schemaVars, sessionVars, queueVars, online, pass, preferences, sosVars, calls, result>>

NoUser == [id |-> NoId, phone_number |-> NoPhone, is_guest |-> FALSE]
NoPrefs == [id |-> NoId, user_id |-> NoId, theme |-> "dark"]
NoAlert == [id |-> NoId, user_id |-> NoId, status |-> "none", location_lat |-> NoCoord]
IdlePass == [pc |-> "idle", queue |-> <<>>, results |-> <<>>]
NoResponder == [id |-> NoId, latitude |-> NoCoord, longitude |-> NoCoord, rating |-> 0,
                response_count |-> 0, created_at |-> NoTime]
IdleCall == [op |-> "idle", pc |-> "idle", uid |-> NoId, phone |-> NoPhone, pid |-> NoId, theme |-> "dark",
             responder |-> NoResponder, rating |-> 0]
Res(op, status, id, req) == [op |-> op, status |-> status, id |-> id, uid |-> NoId, req |-> req]
ResFor(op, status, id, uid) == [op |-> op, status |-> status, id |-> id, uid |-> uid, req |-> "none"]
NoResult == Res("none", "none", NoId, "none")

(***************************************************************************)
(* DatabaseManager over the IndexedDB stores.                              *)
(***************************************************************************)
\* the record store.get(id) resolves to, none when the key is absent
Get(store, id, none) == IF \E r \in store : r.id = id THEN CHOOSE r \in store : r.id = id ELSE none

\* index.getAll(value) on the user_id index
GetByUserId(store, uid) == {r \in store : r.user_id = uid}

\* index.getAll(value) on users.phone_number; a null phone_number is not a
\* valid key, such records are not in the index
GetByPhone(phone) == {u \in users : u.phone_number # NoPhone /\ u.phone_number = phone}

\* users.phone_number declared without unique: true
PhoneIndexNotUnique(store, rec) == TRUE

\* unique index users.phone_number
PhoneUnique(store, rec) ==
  rec.phone_number = NoPhone
    \/ \A u \in store : u.id # rec.id => u.phone_number # rec.phone_number

\* user_preferences.user_id declared without unique: true
UserIdIndexNotUnique(store, rec) == TRUE

\* unique index user_preferences.user_id
UserIdUnique(store, rec) == \A p \in store : p.id # rec.id => p.user_id # rec.user_id

\* store.put(data): replaces the record with the same key or inserts it
Put(store, rec) == {r \in store : r.id # rec.id} \cup {rec}

\* store.delete(id)
Delete(store, id) == {r \in store : r.id # id}

\* the key generator after store.add assigned a key
Bump(name) == [nextId EXCEPT ![name] = @ + 1]

(***************************************************************************)
(* DatabaseManager.init: indexedDB.open and the onupgradeneeded handler.   *)
(***************************************************************************)
\* this.version of the DatabaseManager constructor
DB_VERSION == 1

\* an object store with the names of its indexes
ObjectStore(name, indexes) == [name |-> name, indexes |-> indexes]

\* the stores and indexes the onupgradeneeded handler declares
Declared ==
  {ObjectStore("users", {"phone_number", "email"}),
   ObjectStore("emergency_contacts", {"user_id", "contact_type"}),
   ObjectStore("evidence", {"user_id", "type", "created_at"}),
   ObjectStore("sos_alerts", {"user_id", "status", "triggered_at"}),
   ObjectStore("location_history", {"user_id", "timestamp"}),
   ObjectStore("safe_zones", {"user_id"}),
   ObjectStore("user_preferences", {"user_id"}),
   ObjectStore("community_responders", {"type", "is_verified"}),
   ObjectStore("fake_call_templates", {"user_id"}),
   ObjectStore("risk_detections", {"user_id", "risk_level"})}

\* db.objectStoreNames.contains(name)
Contains(stores, name) == \E s \in stores : s.name = name

\* the onupgradeneeded handler over the declarations declared: a store that
\* is not there yet is created with its indexes, a store that is there is
\* skipped with everything inside its if block
UpgradeNeeded(stores, declared) ==
  stores \cup {d \in declared : ~Contains(stores, d.name)}

\* init() with this.version = version and the handler declaring declared:
\* indexedDB.open rejects a version below the stored one, runs the handler
\* for a version above it and opens the database as it is otherwise
OpenDatabase(version, declared) ==
  /\ given' = [version |-> version, declared |-> declared]
  /\ IF version < dbVersion
       THEN /\ result' = Res("init", "VersionError", NoId, "none")
            /\ UNCHANGED schemaVars
       ELSE /\ objectStores' = IF version > dbVersion THEN UpgradeNeeded(objectStores, declared)
                               ELSE objectStores
            /\ dbVersion' = version
            /\ result' = Res("init", "ok", NoId, "none")
  /\ UNCHANGED <<users, emergency_contacts, sos_alerts, user_preferences, location_history,
                 safe_zones, community_responders, evidence, issued, now, got, list, nextId,
                 sessionVars, queueVars, online, pass, preferences, sosVars, calls>>

(***************************************************************************)
(* Arrays: the order getAll hands records out in, Array.prototype.sort.    *)
(***************************************************************************)
\* request.result of store.getAll() / index.getAll(value): the records in
\* ascending order of their primary key
ById(store) ==
  [k \in 1..Cardinality(store) |->
     CHOOSE r \in store : Cardinality({q \in store : q.id < r.id}) = k - 1]

\* array.sort((a, b) => key(a) - key(b)) with keys[i] the key of seq[i]: the
\* sort is stable, elements with equal keys keep their order
SortByKey(seq, keys) ==
  LET Rank(i) == Cardinality({j \in 1..Len(seq) :
                     keys[j] < keys[i] \/ (keys[j] = keys[i] /\ j < i)}) + 1
  IN [k \in 1..Len(seq) |-> seq[CHOOSE i \in 1..Len(seq) : Rank(i) = k]]

(***************************************************************************)
(* APIService: request and the offline queue.                              *)
(***************************************************************************)
\* addToOfflineQueue: push on the in-memory queue, then persist that queue
QueueAfterAdd(q, req) == Append(q, req)

\* does request(...) queue the request in its catch block
Queues(outcome) == outcome # "ok" /\ ~online

\* return value of request(...)
RequestStatus(outcome) ==
  IF outcome = "ok" THEN "ok" ELSE IF Queues(outcome) THEN "queued" ELSE "failed"

\* a request can be modelled only while the bounded queue has room for it
RequestFits(outcome) == Queues(outcome) => Len(offlineQueue) < MaxQueue

\* the in-memory queue after request(...) completed
QueueAfterRequest(req, outcome) ==
  IF Queues(outcome) THEN QueueAfterAdd(offlineQueue, req) ELSE offlineQueue

\* the persisted queue after request(...) completed
StoredAfterRequest(req, outcome) ==
  IF Queues(outcome) THEN QueueAfterAdd(offlineQueue, req) ELSE lsOfflineQueue

\* sendLocation / sendSOSAlert / sendEvidenceMetadata / syncUserData called
\* on their own: one post through request(...)
Request(req, outcome) ==
  /\ RequestFits(outcome)
  /\ offlineQueue' = QueueAfterRequest(req, outcome)
  /\ lsOfflineQueue' = StoredAfterRequest(req, outcome)
  /\ result' = Res("request", RequestStatus(outcome), NoId, req)
  /\ UNCHANGED <<dbVars, sessionVars, online, schemaVars, pass, preferences, sosVars, calls>>

\* window 'online' / 'offline': navigator.onLine flips
SetOnline(b) ==
  /\ online # b
  /\ online' = b
  /\ result' = NoResult
  /\ UNCHANGED <<dbVars, schemaVars, sessionVars, queueVars, pass, preferences, sosVars, calls>>

\* processOfflineQueue up to its first await: read the persisted queue,
\* return when it is empty
PassStart(p) ==
  /\ pass[p].pc # "replay"
  /\ IF Len(lsOfflineQueue) = 0
       THEN /\ pass' = [pass EXCEPT ![p] = IdlePass]
            /\ result' = Res("processOfflineQueue", "empty", NoId, "none")
       ELSE /\ pass' = [pass EXCEPT ![p] = [pc |-> "replay", queue |-> lsOfflineQueue, results |-> <<>>]]
            /\ result' = NoResult
  /\ UNCHANGED <<dbVars, sessionVars, queueVars, online, schemaVars, preferences, sosVars, calls>>

\* the next element the for-of loop of processOfflineQueue hands to request
NextRequest(p) == pass[p].queue[Len(pass[p].results) + 1]

\* PassReplay without the reset of this.offlineQueue after the loop
PassReplayKeepsMemoryQueue(p, outcome) ==
  /\ pass[p].pc = "replay"
  /\ RequestFits(outcome)
  /\ LET req == NextRequest(p)
         results == Append(pass[p].results, [req |-> req, success |-> outcome = "ok"])
         last == Len(results) = Len(pass[p].queue)
     IN /\ pass' = [pass EXCEPT ![p] = [pc |-> IF last THEN "done" ELSE "replay",
                                        queue |-> pass[p].queue, results |-> results]]
        /\ offlineQueue' = QueueAfterRequest(req, outcome)
        /\ lsOfflineQueue' = IF last THEN <<>> ELSE StoredAfterRequest(req, outcome)
        /\ result' = IF last THEN Res("processOfflineQueue", "synced", NoId, "none") ELSE NoResult
  /\ UNCHANGED <<dbVars, sessionVars, online, schemaVars, preferences, sosVars, calls>>

\* one iteration of the loop: request(...) for the next element completes;
\* after the last one the stored queue is removed and the memory queue reset
PassReplay(p, outcome) ==
  /\ pass[p].pc = "replay"
  /\ RequestFits(outcome)
  /\ LET req == NextRequest(p)
         results == Append(pass[p].results, [req |-> req, success |-> outcome = "ok"])
         last == Len(results) = Len(pass[p].queue)
     IN /\ pass' = [pass EXCEPT ![p] = [pc |-> IF last THEN "done" ELSE "replay",
                                        queue |-> pass[p].queue, results |-> results]]
        /\ offlineQueue' = IF last THEN <<>> ELSE QueueAfterRequest(req, outcome)
        /\ lsOfflineQueue' = IF last THEN <<>> ELSE StoredAfterRequest(req, outcome)
        /\ result' = IF last THEN Res("processOfflineQueue", "synced", NoId, "none") ELSE NoResult
  /\ UNCHANGED <<dbVars, sessionVars, online, schemaVars, preferences, sosVars, calls>>

(***************************************************************************)
(* UserManager and PreferencesManager.createDefaultPreferences.            *)
(***************************************************************************)
\* register / continueAsGuest calls that will still add a users record
PendingUserAdds == Cardinality({c \in Calls : calls[c].pc = "add_user"})

\* saveCurrentUser: the in-memory pointer and its localStorage copy
SaveCurrentUser(user) == currentUser' = user /\ lsCurrentUser' = user

\* the defaultPrefs object of createDefaultPreferences once add returned its id
DefaultPrefs(id, uid) == [id |-> id, user_id |-> uid, theme |-> "dark"]

\* dbManager.add('user_preferences', defaultPrefs) is rejected by the unique
\* user_id index
PrefsAddRejected(uid) ==
  ~UserIdUnique(user_preferences, DefaultPrefs(nextId["user_preferences"], uid))

\* register up to the answer of getByIndex('users', 'phone_number', ...):
\* validation, then the duplicate check
RegisterBegin(c, phone) ==
  /\ calls[c].op = "idle"
  /\ IF phone = NoPhone \/ phone = BadPhone
       THEN /\ result' = Res("register", "invalid", NoId, "none")
            /\ UNCHANGED calls
       ELSE IF GetByPhone(phone) # {}
         THEN /\ result' = Res("register", "exists", NoId, "none")
              /\ UNCHANGED calls
         ELSE /\ nextId["users"] + PendingUserAdds <= MaxUsers
              /\ calls' = [calls EXCEPT ![c] = [IdleCall EXCEPT !.op = "register", !.pc = "add_user", !.phone = phone]]
              /\ result' = NoResult
  /\ UNCHANGED <<dbVars, sessionVars, queueVars, online, schemaVars, pass, preferences, sosVars>>

\* continueAsGuest up to the call of dbManager.add('users', guestUser)
GuestBegin(c) ==
  /\ calls[c].op = "idle"
  /\ nextId["users"] + PendingUserAdds <= MaxUsers
  /\ calls' = [calls EXCEPT ![c] = [IdleCall EXCEPT !.op = "continueAsGuest", !.pc = "add_user"]]
  /\ result' = NoResult
  /\ UNCHANGED <<dbVars, sessionVars, queueVars, online, schemaVars, pass, preferences, sosVars>>

\* dbManager.add('users', user) of register / continueAsGuest completes: the
\* unique phone_number index rejects a duplicate, the catch block reports it
UserAdd(c) ==
  /\ calls[c].pc = "add_user"
  /\ LET user == [id |-> nextId["users"], phone_number |-> calls[c].phone,
                  is_guest |-> calls[c].op = "continueAsGuest"]
     IN IF PhoneUnique(users, user)
          THEN /\ users' = users \cup {user}
               /\ nextId' = Bump("users")
               /\ calls' = [calls EXCEPT ![c].pc = "add_prefs", ![c].uid = user.id]
               /\ result' = NoResult
          ELSE /\ calls' = [calls EXCEPT ![c] = IdleCall]
               /\ result' = Res(calls[c].op, "ConstraintError", NoId, "none")
               /\ UNCHANGED <<users, nextId>>
  /\ UNCHANGED <<emergency_contacts, sos_alerts, user_preferences, location_history, moreVars,
                 sessionVars, queueVars, online, schemaVars, pass, preferences, sosVars>>

\* createDefaultPreferences(userId) of register / continueAsGuest completes
\* (its own catch swallows a rejected add), then saveCurrentUser(user)
UserPrefsAdd(c) ==
  /\ calls[c].pc = "add_prefs"
  /\ nextId["user_preferences"] <= MaxPrefs
  /\ LET uid == calls[c].uid
         prefs == DefaultPrefs(nextId["user_preferences"], uid)
         user == [id |-> uid, phone_number |-> calls[c].phone,
                  is_guest |-> calls[c].op = "continueAsGuest"]
     IN /\ IF PrefsAddRejected(uid)
             THEN UNCHANGED <<user_preferences, nextId, preferences>>
             ELSE /\ user_preferences' = user_preferences \cup {prefs}
                  /\ nextId' = Bump("user_preferences")
                  /\ preferences' = prefs
        /\ SaveCurrentUser(user)
        /\ result' = ResFor(calls[c].op, "ok", uid, uid)
  /\ calls' = [calls EXCEPT ![c] = IdleCall]
  /\ UNCHANGED <<users, emergency_contacts, sos_alerts, location_history, moreVars,
                 queueVars, online, schemaVars, pass, sosVars>>

\* login up to the answer of getByIndex('users', 'phone_number', ...)
LoginBegin(c, phone) ==
  /\ calls[c].op = "idle"
  /\ IF phone = NoPhone \/ phone = BadPhone
       THEN /\ result' = Res("login", "invalid", NoId, "none")
            /\ UNCHANGED calls
       ELSE IF GetByPhone(phone) = {}
         THEN /\ result' = Res("login", "not_found", NoId, "none")
              /\ UNCHANGED calls
         ELSE /\ LET user == CHOOSE u \in GetByPhone(phone) : TRUE
                 IN calls' = [calls EXCEPT ![c] = [IdleCall EXCEPT !.op = "login", !.pc = "put_user",
                                                   !.uid = user.id, !.phone = user.phone_number]]
              /\ result' = NoResult
  /\ UNCHANGED <<dbVars, sessionVars, queueVars, online, schemaVars, pass, preferences, sosVars>>

\* dbManager.update('users', user) of login completes, then saveCurrentUser
LoginPut(c) ==
  /\ calls[c].pc = "put_user"
  /\ LET user == [id |-> calls[c].uid, phone_number |-> calls[c].phone, is_guest |-> FALSE]
     IN IF PhoneUnique(users, user)
          THEN /\ users' = Put(users, user)
               /\ SaveCurrentUser(user)
               /\ result' = ResFor("login", "ok", user.id, user.id)
          ELSE /\ result' = Res("login", "ConstraintError", NoId, "none")
               /\ UNCHANGED <<users, sessionVars>>
  /\ calls' = [calls EXCEPT ![c] = IdleCall]
  /\ UNCHANGED <<emergency_contacts, sos_alerts, user_preferences, location_history, moreVars, nextId,
                 queueVars, online, schemaVars, pass, preferences, sosVars>>

\* logout without Utils.storage.remove(CONFIG.STORAGE_KEYS.CURRENT_USER)
LogoutInMemoryOnly ==
  /\ currentUser' = NoUser
  /\ lsCurrentUser' = lsCurrentUser
  /\ result' = Res("logout", "ok", NoId, "none")
  /\ UNCHANGED <<dbVars, queueVars, online, schemaVars, pass, preferences, sosVars, calls>>

\* logout
Logout ==
  /\ currentUser' = NoUser
  /\ lsCurrentUser' = NoUser
  /\ result' = Res("logout", "ok", NoId, "none")
  /\ UNCHANGED <<dbVars, queueVars, online, schemaVars, pass, preferences, sosVars, calls>>

\* updateProfile(updates); phone = NoPhone stands for updates without a
\* phone_number
UpdateProfile(phone) ==
  /\ IF currentUser = NoUser
       THEN /\ result' = Res("updateProfile", "not_logged_in", NoId, "none")
            /\ UNCHANGED <<users, sessionVars>>
       ELSE IF phone = BadPhone
         THEN /\ result' = Res("updateProfile", "invalid", NoId, "none")
              /\ UNCHANGED <<users, sessionVars>>
         ELSE LET updatedUser == IF phone = NoPhone THEN currentUser
                                 ELSE [currentUser EXCEPT !.phone_number = phone]
              IN IF PhoneUnique(users, updatedUser)
                   THEN /\ users' = Put(users, updatedUser)
                        /\ SaveCurrentUser(updatedUser)
                        /\ result' = ResFor("updateProfile", "ok", updatedUser.id, updatedUser.id)
                   ELSE /\ result' = ResFor("updateProfile", "ConstraintError", NoId, currentUser.id)
                        /\ UNCHANGED <<users, sessionVars>>
  /\ UNCHANGED <<emergency_contacts, sos_alerts, user_preferences, location_history, moreVars, nextId,
                 queueVars, online, schemaVars, pass, preferences, sosVars, calls>>

\* deleteAccount: the confirm dialog, dbManager.delete('users', userId), logout
DeleteAccount(confirmed) ==
  /\ IF currentUser = NoUser
       THEN /\ result' = Res("deleteAccount", "not_logged_in", NoId, "none")
            /\ UNCHANGED <<users, sessionVars>>
       ELSE IF ~confirmed
         THEN /\ result' = Res("deleteAccount", "cancelled", NoId, "none")
              /\ UNCHANGED <<users, sessionVars>>
         ELSE /\ users' = Delete(users, currentUser.id)
              /\ currentUser' = NoUser
              /\ lsCurrentUser' = NoUser
              /\ result' = ResFor("deleteAccount", "ok", currentUser.id, currentUser.id)
  /\ UNCHANGED <<emergency_contacts, sos_alerts, user_preferences, location_history, moreVars, nextId,
                 queueVars, online, schemaVars, pass, preferences, sosVars, calls>>

(***************************************************************************)
(* PreferencesManager.                                                     *)
(***************************************************************************)
\* getPreferences finds this.preferences loaded for the current user
CacheHit == preferences # NoPrefs /\ preferences.user_id = currentUser.id

\* prefs[0] of getByIndex('user_preferences', 'user_id', user.id)
StoredPrefs(uid) == CHOOSE p \in GetByUserId(user_preferences, uid) : TRUE

\* getPreferences up to its first database answer: no user, the cached
\* record, the stored record, or the call of createDefaultPreferences
GetPreferencesBegin(c) ==
  /\ calls[c].op = "idle"
  /\ IF currentUser = NoUser
       THEN /\ result' = Res("getPreferences", "null", NoId, "none")
            /\ UNCHANGED <<calls, preferences>>
       ELSE IF CacheHit
         THEN /\ result' = ResFor("getPreferences", "prefs", preferences.id, currentUser.id)
              /\ UNCHANGED <<calls, preferences>>
         ELSE IF GetByUserId(user_preferences, currentUser.id) # {}
           THEN /\ preferences' = StoredPrefs(currentUser.id)
                /\ result' = ResFor("getPreferences", "prefs", StoredPrefs(currentUser.id).id, currentUser.id)
                /\ UNCHANGED calls
           ELSE /\ calls' = [calls EXCEPT ![c] = [IdleCall EXCEPT !.op = "getPreferences", !.pc = "create",
                                                  !.uid = currentUser.id]]
                /\ result' = NoResult
                /\ UNCHANGED preferences
  /\ UNCHANGED <<dbVars, sessionVars, queueVars, online, schemaVars, pass, sosVars>>

\* createDefaultPreferences(user.id) called by getPreferences completes;
\* getPreferences returns result.preferences, which a rejected add leaves
\* undefined
GetPreferencesCreate(c) ==
  /\ calls[c].op = "getPreferences" /\ calls[c].pc = "create"
  /\ nextId["user_preferences"] <= MaxPrefs
  /\ LET uid == calls[c].uid
         prefs == DefaultPrefs(nextId["user_preferences"], uid)
     IN IF PrefsAddRejected(uid)
          THEN /\ result' = ResFor("getPreferences", "undefined", NoId, uid)
               /\ UNCHANGED <<user_preferences, nextId, preferences>>
          ELSE /\ user_preferences' = user_preferences \cup {prefs}
               /\ nextId' = Bump("user_preferences")
               /\ preferences' = prefs
               /\ result' = ResFor("getPreferences", "prefs", prefs.id, uid)
  /\ calls' = [calls EXCEPT ![c] = IdleCall]
  /\ UNCHANGED <<users, emergency_contacts, sos_alerts, location_history, moreVars,
                 sessionVars, queueVars, online, schemaVars, pass, sosVars>>

\* dbManager.update('user_preferences', {...currentPrefs, ...updates}) and
\* the assignment to this.preferences that follows it
PutPrefs(updatedPrefs, uid) ==
  IF UserIdUnique(user_preferences, updatedPrefs)
    THEN /\ user_preferences' = Put(user_preferences, updatedPrefs)
         /\ preferences' = updatedPrefs
         /\ result' = ResFor("updatePreferences", "ok", updatedPrefs.id, uid)
    ELSE /\ result' = ResFor("updatePreferences", "ConstraintError", NoId, uid)
         /\ UNCHANGED <<user_preferences, preferences>>

\* updatePreferences({theme}) up to its first database answer: with the
\* cached record the update is issued at once, otherwise getPreferences
\* reads the store first
UpdatePreferencesBegin(c, theme) ==
  /\ calls[c].op = "idle"
  /\ IF currentUser = NoUser
       THEN /\ result' = Res("updatePreferences", "not_found", NoId, "none")
            /\ UNCHANGED <<calls, preferences, user_preferences>>
       ELSE IF CacheHit
         THEN /\ PutPrefs([preferences EXCEPT !.theme = theme], currentUser.id)
              /\ UNCHANGED calls
         ELSE IF GetByUserId(user_preferences, currentUser.id) # {}
           THEN /\ preferences' = StoredPrefs(currentUser.id)
                /\ calls' = [calls EXCEPT ![c] = [IdleCall EXCEPT !.op = "updatePreferences", !.pc = "put_prefs",
                                                  !.uid = currentUser.id, !.pid = StoredPrefs(currentUser.id).id,
                                                  !.theme = theme]]
                /\ result' = NoResult
                /\ UNCHANGED user_preferences
           ELSE /\ calls' = [calls EXCEPT ![c] = [IdleCall EXCEPT !.op = "updatePreferences", !.pc = "create",
                                                  !.uid = currentUser.id, !.theme = theme]]
                /\ result' = NoResult
                /\ UNCHANGED <<preferences, user_preferences>>
  /\ UNCHANGED <<users, emergency_contacts, sos_alerts, location_history, moreVars, nextId,
                 sessionVars, queueVars, online, schemaVars, pass, sosVars>>

\* createDefaultPreferences called through updatePreferences completes;
\* without a record updatePreferences throws 'Preferences not found'
UpdatePreferencesCreate(c) ==
  /\ calls[c].op = "updatePreferences" /\ calls[c].pc = "create"
  /\ nextId["user_preferences"] <= MaxPrefs
  /\ LET uid == calls[c].uid
         prefs == DefaultPrefs(nextId["user_preferences"], uid)
     IN IF PrefsAddRejected(uid)
          THEN /\ result' = ResFor("updatePreferences", "not_found", NoId, uid)
               /\ calls' = [calls EXCEPT ![c] = IdleCall]
               /\ UNCHANGED <<user_preferences, nextId, preferences>>
          ELSE /\ user_preferences' = user_preferences \cup {prefs}
               /\ nextId' = Bump("user_preferences")
               /\ preferences' = prefs
               /\ calls' = [calls EXCEPT ![c].pc = "put_prefs", ![c].pid = prefs.id]
               /\ result' = NoResult
  /\ UNCHANGED <<users, emergency_contacts, sos_alerts, location_history, moreVars,
                 sessionVars, queueVars, online, schemaVars, pass, sosVars>>

\* the update issued by updatePreferences after getPreferences read the
\* store completes
UpdatePreferencesPut(c) ==
  /\ calls[c].op = "updatePreferences" /\ calls[c].pc = "put_prefs"
  /\ PutPrefs([id |-> calls[c].pid, user_id |-> calls[c].uid, theme |-> calls[c].theme], calls[c].uid)
  /\ calls' = [calls EXCEPT ![c] = IdleCall]
  /\ UNCHANGED <<users, emergency_contacts, sos_alerts, location_history, moreVars, nextId,
                 sessionVars, queueVars, online, schemaVars, pass, sosVars>>

\* resetPreferences up to the call of createDefaultPreferences: the confirm
\* dialog, the login check, the delete of the record this.preferences holds
ResetPreferencesBegin(c, confirmed) ==
  /\ calls[c].op = "idle"
  /\ IF ~confirmed
       THEN /\ result' = Res("resetPreferences", "cancelled", NoId, "none")
            /\ UNCHANGED <<calls, user_preferences>>
       ELSE IF currentUser = NoUser
         THEN /\ result' = Res("resetPreferences", "not_logged_in", NoId, "none")
              /\ UNCHANGED <<calls, user_preferences>>
         ELSE /\ user_preferences' = IF preferences # NoPrefs
                                       THEN Delete(user_preferences, preferences.id)
                                       ELSE user_preferences
              /\ calls' = [calls EXCEPT ![c] = [IdleCall EXCEPT !.op = "resetPreferences", !.pc = "create",
                                                !.uid = currentUser.id]]
              /\ result' = NoResult
  /\ UNCHANGED <<users, emergency_contacts, sos_alerts, location_history, moreVars, nextId,
                 sessionVars, queueVars, online, schemaVars, pass, preferences, sosVars>>

\* createDefaultPreferences(user.id) of resetPreferences completes; on
\* success loadAndApplyPreferences runs getPreferences, which for a user
\* logged in meanwhile loads the stored record or goes on to create one
ResetPreferencesCreate(c) ==
  /\ calls[c].op = "resetPreferences" /\ calls[c].pc = "create"
  /\ nextId["user_preferences"] <= MaxPrefs
  /\ LET uid == calls[c].uid
         prefs == DefaultPrefs(nextId["user_preferences"], uid)
     IN IF PrefsAddRejected(uid)
          THEN /\ result' = ResFor("resetPreferences", "ConstraintError", NoId, uid)
               /\ UNCHANGED <<user_preferences, nextId, preferences>>
          ELSE /\ user_preferences' = user_preferences \cup {prefs}
               /\ nextId' = Bump("user_preferences")
               /\ preferences' = IF currentUser # NoUser /\ currentUser.id # uid
                                      /\ GetByUserId(user_preferences, currentUser.id) # {}
                                    THEN StoredPrefs(currentUser.id)
                                    ELSE prefs
               /\ result' = ResFor("resetPreferences", "ok", prefs.id, uid)
  /\ calls' = [calls EXCEPT ![c] =
       IF ~PrefsAddRejected(calls[c].uid) /\ currentUser # NoUser /\ currentUser.id # calls[c].uid
           /\ GetByUserId(user_preferences, currentUser.id) = {}
         THEN [IdleCall EXCEPT !.op = "getPreferences", !.pc = "create", !.uid = currentUser.id]
         ELSE IdleCall]
  /\ UNCHANGED <<users, emergency_contacts, sos_alerts, location_history, moreVars,
                 sessionVars, queueVars, online, schemaVars, pass, sosVars>>

(***************************************************************************)
(* LocationManager.                                                        *)
(***************************************************************************)
Abs(x) == IF x < 0 THEN 0 - x ELSE x

\* Utils.calculateDistance for two points of one meridian, in metres: the
\* haversine formula gives R * |dphi| there, 11.1195 m for 1e-4 degree
CalculateDistance(lat1, lat2) == (Abs(lat2 - lat1) * 111195) \div 10000

\* isInSafeZone without the filter on zone.is_active
IsInSafeZoneOfAnyState(latitude) ==
  /\ currentUser # NoUser
  /\ \E zone \in GetByUserId(safe_zones, currentUser.id) :
       CalculateDistance(latitude, zone.latitude) <= zone.radius

\* isInSafeZone(latitude, longitude)
IsInSafeZone(latitude) ==
  /\ currentUser # NoUser
  /\ \E zone \in GetByUserId(safe_zones, currentUser.id) :
       zone.is_active /\ CalculateDistance(latitude, zone.latitude) <= zone.radius

\* the locationRecord of saveLocation once add returned its id
LocationRecord(id, uid, latitude) ==
  [id |-> id, user_id |-> uid, latitude |-> latitude, is_safe_zone |-> IsInSafeZone(latitude)]

NoZone == [id |-> NoId, user_id |-> NoId, latitude |-> NoCoord, radius |-> 0, is_active |-> FALSE]

\* addSafeZone(name, latitude, Meridian, radius)
AddSafeZone(latitude, radius) ==
  /\ IF currentUser = NoUser
       THEN /\ result' = Res("addSafeZone", "not_logged_in", NoId, "none")
            /\ UNCHANGED <<safe_zones, nextId>>
       ELSE /\ nextId["safe_zones"] <= MaxZones
            /\ safe_zones' = safe_zones \cup
                 {[id |-> nextId["safe_zones"], user_id |-> currentUser.id, latitude |-> latitude,
                   radius |-> radius, is_active |-> TRUE]}
            /\ nextId' = Bump("safe_zones")
            /\ result' = ResFor("addSafeZone", "ok", nextId["safe_zones"], currentUser.id)
  /\ UNCHANGED <<users, emergency_contacts, sos_alerts, user_preferences, location_history,
                 community_responders, evidence, issued, now, given, got, list,
                 sessionVars, queueVars, online, schemaVars, pass, preferences, sosVars, calls>>

\* deleteSafeZone(zoneId)
DeleteSafeZone(zoneId) ==
  /\ safe_zones' = Delete(safe_zones, zoneId)
  /\ result' = Res("deleteSafeZone", "ok", zoneId, "none")
  /\ UNCHANGED <<users, emergency_contacts, sos_alerts, user_preferences, location_history,
                 community_responders, evidence, issued, now, given, got, list, nextId,
                 sessionVars, queueVars, online, schemaVars, pass, preferences, sosVars, calls>>

\* dbManager.update('safe_zones', {...zone, is_active: false}) for a stored
\* zone: no manager switches a zone off, the data layer can
DeactivateSafeZone(zoneId) ==
  /\ \E zone \in safe_zones : zone.id = zoneId
  /\ safe_zones' = Put(safe_zones, [Get(safe_zones, zoneId, NoZone) EXCEPT !.is_active = FALSE])
  /\ result' = Res("updateSafeZone", "ok", zoneId, "none")
  /\ UNCHANGED <<users, emergency_contacts, sos_alerts, user_preferences, location_history,
                 community_responders, evidence, issued, now, given, got, list, nextId,
                 sessionVars, queueVars, online, schemaVars, pass, preferences, sosVars, calls>>

\* locationManager.isInSafeZone(latitude, Meridian) called on its own
CheckSafeZone(latitude) ==
  /\ given' = [latitude |-> latitude, longitude |-> Meridian]
  /\ result' = ResFor("isInSafeZone", IF IsInSafeZone(latitude) THEN "true" ELSE "false",
                      NoId, currentUser.id)
  /\ UNCHANGED <<users, emergency_contacts, sos_alerts, user_preferences, location_history,
                 safe_zones, community_responders, evidence, issued, now, got, list, nextId,
                 sessionVars, queueVars, online, schemaVars, pass, preferences, sosVars, calls>>

(***************************************************************************)
(* ContactsManager.                                                        *)
(***************************************************************************)
NoContact == [id |-> NoId, user_id |-> NoId, priority |-> 0, is_active |-> FALSE]

\* addContact(contactData)
AddContact(priority) ==
  /\ IF currentUser = NoUser
       THEN /\ result' = Res("addContact", "not_logged_in", NoId, "none")
            /\ UNCHANGED <<emergency_contacts, nextId>>
       ELSE /\ nextId["emergency_contacts"] <= MaxContacts
            /\ emergency_contacts' = emergency_contacts \cup
                 {[id |-> nextId["emergency_contacts"], user_id |-> currentUser.id,
                   priority |-> priority, is_active |-> TRUE]}
            /\ nextId' = Bump("emergency_contacts")
            /\ result' = ResFor("addContact", "ok", nextId["emergency_contacts"], currentUser.id)
  /\ UNCHANGED <<users, sos_alerts, user_preferences, location_history, moreVars,
                 sessionVars, queueVars, online, schemaVars, pass, preferences, sosVars, calls>>

\* updateContact(contactId, {priority})
UpdateContact(contactId, priority) ==
  /\ LET contact == Get(emergency_contacts, contactId, NoContact)
     IN IF contact = NoContact
          THEN /\ result' = Res("updateContact", "not_found", contactId, "none")
               /\ UNCHANGED emergency_contacts
          ELSE /\ emergency_contacts' = Put(emergency_contacts, [contact EXCEPT !.priority = priority])
               /\ result' = ResFor("updateContact", "ok", contactId, currentUser.id)
  /\ UNCHANGED <<users, sos_alerts, user_preferences, location_history, moreVars, nextId,
                 sessionVars, queueVars, online, schemaVars, pass, preferences, sosVars, calls>>

\* toggleContact(contactId)
ToggleContact(contactId) ==
  /\ LET contact == Get(emergency_contacts, contactId, NoContact)
     IN IF contact = NoContact
          THEN /\ result' = Res("toggleContact", "not_found", contactId, "none")
               /\ UNCHANGED emergency_contacts
          ELSE /\ emergency_contacts' = Put(emergency_contacts, [contact EXCEPT !.is_active = ~contact.is_active])
               /\ result' = ResFor("toggleContact", "ok", contactId, currentUser.id)
  /\ UNCHANGED <<users, sos_alerts, user_preferences, location_history, moreVars, nextId,
                 sessionVars, queueVars, online, schemaVars, pass, preferences, sosVars, calls>>

\* deleteContact(contactId)
DeleteContact(contactId, confirmed) ==
  /\ IF ~confirmed
       THEN /\ result' = Res("deleteContact", "cancelled", contactId, "none")
            /\ UNCHANGED emergency_contacts
       ELSE /\ emergency_contacts' = Delete(emergency_contacts, contactId)
            /\ result' = ResFor("deleteContact", "ok", contactId, currentUser.id)
  /\ UNCHANGED <<users, sos_alerts, user_preferences, location_history, moreVars, nextId,
                 sessionVars, queueVars, online, schemaVars, pass, preferences, sosVars, calls>>

\* getContacts with contacts.sort((a, b) => a.priority - b.priority)
ContactsLowestFirst(uid) ==
  LET contacts == ById(GetByUserId(emergency_contacts, uid))
  IN SortByKey(contacts, [i \in 1..Len(contacts) |-> contacts[i].priority])

\* the array of getContacts: getByIndex on user_id, then
\* contacts.sort((a, b) => b.priority - a.priority)
ContactsHighestFirst(uid) ==
  LET contacts == ById(GetByUserId(emergency_contacts, uid))
  IN SortByKey(contacts, [i \in 1..Len(contacts) |-> 0 - contacts[i].priority])

\* getContacts()
GetContacts ==
  /\ list' = IF currentUser = NoUser THEN <<>> ELSE ContactsHighestFirst(currentUser.id)
  /\ result' = ResFor("getContacts", "ok", NoId, currentUser.id)
  /\ UNCHANGED <<users, emergency_contacts, sos_alerts, user_preferences, location_history,
                 safe_zones, community_responders, evidence, issued, now, given, got, nextId,
                 sessionVars, queueVars, online, schemaVars, pass, preferences, sosVars, calls>>

(***************************************************************************)
(* SOSManager and NavigationManager.                                       *)
(***************************************************************************)
\* CONFIG.SOS.COUNTDOWN_SECONDS
COUNTDOWN_SECONDS == 3

\* clearInterval that leaves every timer running
ClearIntervalIgnored(ts, id) == ts

\* clearInterval(id); clearing an id that is not live does nothing
ClearInterval(ts, id) == {t \in ts : t.id # id}

\* the body of triggerSOS: the alert record, currentAlert, the post of
\* sendSOSAlert and, with a location, saveLocation
TriggerSOSBody(location, outcome) ==
  IF currentUser = NoUser
    THEN /\ result' = Res("triggerSOS", "not_logged_in", NoId, "none")
         /\ UNCHANGED <<sos_alerts, location_history, nextId, currentAlert, queueVars>>
    ELSE /\ nextId["sos_alerts"] <= MaxAlerts
         /\ RequestFits(outcome)
         /\ LET sosAlert == [id |-> nextId["sos_alerts"], user_id |-> currentUser.id,
                             status |-> "active", location_lat |-> location]
            IN /\ sos_alerts' = sos_alerts \cup {sosAlert}
               /\ currentAlert' = sosAlert
               /\ result' = ResFor("triggerSOS", "ok", sosAlert.id, currentUser.id)
         /\ offlineQueue' = QueueAfterRequest("sos_alert", outcome)
         /\ lsOfflineQueue' = StoredAfterRequest("sos_alert", outcome)
         /\ IF location = NoCoord
              THEN /\ nextId' = Bump("sos_alerts")
                   /\ UNCHANGED location_history
              ELSE /\ location_history' = location_history \cup
                        {LocationRecord(nextId["location_history"], currentUser.id, location)}
                   /\ nextId' = [nextId EXCEPT !["sos_alerts"] = @ + 1, !["location_history"] = @ + 1]

\* triggerSOS(); location = NoCoord when Utils.getCurrentLocation rejects
TriggerSOS(location, outcome) ==
  /\ TriggerSOSBody(location, outcome)
  /\ UNCHANGED <<users, emergency_contacts, user_preferences, moreVars, sessionVars,
                 online, schemaVars, pass, preferences, countdownInterval, timers, nextTimer, currentScreen, calls>>

\* cancelSOS()
CancelSOS ==
  /\ IF currentAlert = NoAlert
       THEN /\ result' = Res("cancelSOS", "ok", NoId, "none")
            /\ UNCHANGED <<sos_alerts, currentAlert, countdownInterval, timers>>
       ELSE LET alert == Get(sos_alerts, currentAlert.id, NoAlert)
            IN IF alert = NoAlert
                 THEN /\ result' = Res("cancelSOS", "error", currentAlert.id, "none")
                      /\ UNCHANGED <<sos_alerts, currentAlert, countdownInterval, timers>>
                 ELSE /\ sos_alerts' = Put(sos_alerts, [alert EXCEPT !.status = "cancelled"])
                      /\ timers' = ClearInterval(timers, countdownInterval)
                      /\ countdownInterval' = NoId
                      /\ currentAlert' = NoAlert
                      /\ result' = ResFor("cancelSOS", "ok", alert.id, currentUser.id)
  /\ UNCHANGED <<users, emergency_contacts, user_preferences, location_history, moreVars, nextId,
                 sessionVars, queueVars, online, schemaVars, pass, preferences, nextTimer, currentScreen, calls>>

\* resolveSOS(alertId, notes)
ResolveSOS(alertId) ==
  /\ LET alert == Get(sos_alerts, alertId, NoAlert)
     IN IF alert = NoAlert
          THEN /\ result' = Res("resolveSOS", "not_found", alertId, "none")
               /\ UNCHANGED sos_alerts
          ELSE /\ sos_alerts' = Put(sos_alerts, [alert EXCEPT !.status = "resolved"])
               /\ result' = ResFor("resolveSOS", "ok", alertId, currentUser.id)
  /\ UNCHANGED <<users, emergency_contacts, user_preferences, location_history, moreVars, nextId,
                 sessionVars, queueVars, online, schemaVars, pass, preferences, sosVars, calls>>

\* navigateTo(screenId): leaving for a screen other than the SOS screen
\* clears the countdown; entering the SOS screen runs startSOSCountdown,
\* whose startCountdown clears a running interval and sets a new one
NavigateTo(screenId) ==
  /\ IF screenId = "sos-screen"
       THEN /\ nextTimer <= MaxTimers
            /\ timers' = ClearInterval(timers, countdownInterval)
                           \cup {[id |-> nextTimer, count |-> COUNTDOWN_SECONDS]}
            /\ countdownInterval' = nextTimer
            /\ nextTimer' = nextTimer + 1
       ELSE /\ timers' = ClearInterval(timers, countdownInterval)
            /\ countdownInterval' = NoId
            /\ UNCHANGED nextTimer
  /\ currentScreen' = screenId
  /\ result' = NoResult
  /\ UNCHANGED <<dbVars, sessionVars, queueVars, online, schemaVars, pass, preferences, currentAlert, calls>>

\* the interval callback of startCountdown fires without reaching zero
CountdownTick(id) ==
  /\ \E t \in timers : t.id = id /\ t.count - 1 > 0
  /\ timers' = {IF t.id = id THEN [t EXCEPT !.count = @ - 1] ELSE t : t \in timers}
  /\ result' = NoResult
  /\ UNCHANGED <<dbVars, sessionVars, queueVars, online, schemaVars, pass, preferences,
                 currentAlert, countdownInterval, nextTimer, currentScreen, calls>>

\* the interval callback reaches zero: clearInterval(this.countdownInterval)
\* and triggerSOS()
CountdownFire(id, location, outcome) ==
  /\ \E t \in timers : t.id = id /\ t.count - 1 <= 0
  /\ timers' = ClearInterval({IF t.id = id THEN [t EXCEPT !.count = @ - 1] ELSE t : t \in timers},
                             countdownInterval)
  /\ countdownInterval' = NoId
  /\ TriggerSOSBody(location, outcome)
  /\ UNCHANGED <<users, emergency_contacts, user_preferences, moreVars, sessionVars,
                 online, schemaVars, pass, preferences, nextTimer, currentScreen, calls>>

(***************************************************************************)
(* CommunityManager and DatabaseManager.initializeDefaultData.             *)
(***************************************************************************)
RECURSIVE Fact(_)
Fact(n) == IF n <= 1 THEN 1 ELSE n * Fact(n - 1)

\* ratings are numbers in units of 1/Scale: every average of up to
\* MaxRatings whole ratings and the default ratings 4.5 and 4.8 are whole
\* multiples of that unit
Scale == 10 * Fact(MaxRatings)

\* the rating fields of defaultResponders: 5.0, 5.0, 5.0, 4.5, 4.8
DefaultRatings == <<50 * (Scale \div 10), 50 * (Scale \div 10), 50 * (Scale \div 10),
                    45 * (Scale \div 10), 48 * (Scale \div 10)>>

\* the records initializeDefaultData adds when count('community_responders')
\* is 0: no latitude or longitude, response_count 0, created_at stamped by add
DefaultResponders ==
  IF community_responders # {} THEN {}
  ELSE {[id |-> nextId["community_responders"] + i - 1, latitude |-> NoCoord, longitude |-> NoCoord,
         rating |-> DefaultRatings[i], response_count |-> 0, created_at |-> now] :
          i \in 1..Len(DefaultRatings)}

\* dbManager.initializeDefaultData()
InitializeDefaultData ==
  /\ community_responders' = community_responders \cup DefaultResponders
  /\ issued' = issued \cup {r.id : r \in DefaultResponders}
  /\ nextId' = [nextId EXCEPT !["community_responders"] = @ + Cardinality(DefaultResponders)]
  /\ result' = NoResult
  /\ UNCHANGED <<users, emergency_contacts, sos_alerts, user_preferences, location_history,
                 safe_zones, evidence, now, given, got, list,
                 sessionVars, queueVars, online, schemaVars, pass, preferences, sosVars, calls>>

\* responderData.latitude || null, responderData.longitude || null
OrNull(coord) == IF coord = 0 THEN NoCoord ELSE coord

\* addResponder(responderData)
AddResponder(latitude, longitude) ==
  /\ nextId["community_responders"] <= MaxResponders
  /\ LET responder == [id |-> nextId["community_responders"], latitude |-> OrNull(latitude),
                       longitude |-> OrNull(longitude), rating |-> 0, response_count |-> 0,
                       created_at |-> now]
     IN /\ community_responders' = community_responders \cup {responder}
        /\ issued' = issued \cup {responder.id}
        /\ result' = Res("addResponder", "ok", responder.id, "none")
  /\ nextId' = Bump("community_responders")
  /\ UNCHANGED <<users, emergency_contacts, sos_alerts, user_preferences, location_history,
                 safe_zones, evidence, now, given, got, list,
                 sessionVars, queueVars, online, schemaVars, pass, preferences, sosVars, calls>>

\* the guard of rateResponder: rating < 0 || rating > 5, false for NaN
RatingRejected(rating) == rating # NaN /\ (rating < 0 \/ rating > 5 * Scale)

\* totalRating / responder.response_count after the increment
NewRating(responder, rating) ==
  IF responder.rating = NaN \/ rating = NaN THEN NaN
  ELSE (responder.rating * responder.response_count + rating) \div (responder.response_count + 1)

\* rateResponder up to the answer of dbManager.get: the range check, then
\* the check that the responder exists
RateResponderBegin(c, responderId, rating) ==
  /\ calls[c].op = "idle"
  /\ IF RatingRejected(rating)
       THEN /\ result' = Res("rateResponder", "invalid", responderId, "none")
            /\ UNCHANGED calls
       ELSE LET responder == Get(community_responders, responderId, NoResponder)
            IN IF responder = NoResponder
                 THEN /\ result' = Res("rateResponder", "not_found", responderId, "none")
                      /\ UNCHANGED calls
                 ELSE /\ responder.response_count < MaxRatings
                      /\ calls' = [calls EXCEPT ![c] = [IdleCall EXCEPT !.op = "rateResponder", !.pc = "put",
                                                        !.responder = responder, !.rating = rating]]
                      /\ result' = NoResult
  /\ UNCHANGED <<dbVars, sessionVars, queueVars, online, schemaVars, pass, preferences, sosVars>>

\* dbManager.update('community_responders', responder) of rateResponder
\* completes: the record read earlier goes back with the new average and
\* the incremented count
RateResponderPut(c) ==
  /\ calls[c].op = "rateResponder" /\ calls[c].pc = "put"
  /\ LET responder == calls[c].responder
     IN community_responders' = Put(community_responders,
          [responder EXCEPT !.rating = NewRating(responder, calls[c].rating),
                            !.response_count = @ + 1])
  /\ result' = Res("rateResponder", "ok", calls[c].responder.id, "none")
  /\ calls' = [calls EXCEPT ![c] = IdleCall]
  /\ UNCHANGED <<users, emergency_contacts, sos_alerts, user_preferences, location_history,
                 safe_zones, evidence, issued, now, given, got, list, nextId,
                 sessionVars, queueVars, online, schemaVars, pass, preferences, sosVars>>

\* r.latitude && r.longitude: null, undefined and 0 are all falsy
HasLocation(r) == r.latitude # NoCoord /\ r.latitude # 0 /\ r.longitude # NoCoord /\ r.longitude # 0

\* {...responder, distance: distance / 1000}; the distance field holds
\* thousandths of a kilometre
WithDistance(r, latitude) ==
  [id |-> r.id, latitude |-> r.latitude, longitude |-> r.longitude,
   distance |-> CalculateDistance(latitude, r.latitude)]

\* the array getNearbyResponders(latitude, Meridian, radiusKm) returns
NearbyResponders(latitude, radiusKm) ==
  LET respondersWithLocation == SelectSeq(ById(community_responders), HasLocation)
      mapped == [i \in 1..Len(respondersWithLocation) |-> WithDistance(respondersWithLocation[i], latitude)]
      InRadius(r) == r.distance <= radiusKm * 1000
      nearby == SelectSeq(mapped, InRadius)
  IN SortByKey(nearby, [i \in 1..Len(nearby) |-> nearby[i].distance])

\* getNearbyResponders(latitude, longitude, radiusKm) for a point of the meridian
GetNearbyResponders(latitude, radiusKm) ==
  /\ list' = NearbyResponders(latitude, radiusKm)
  /\ given' = [latitude |-> latitude, longitude |-> Meridian, radiusKm |-> radiusKm]
  /\ result' = Res("getNearbyResponders", "ok", NoId, "none")
  /\ UNCHANGED <<users, emergency_contacts, sos_alerts, user_preferences, location_history,
                 safe_zones, community_responders, evidence, issued, now, got, nextId,
                 sessionVars, queueVars, online, schemaVars, pass, preferences, sosVars, calls>>

(***************************************************************************)
(* DatabaseManager called directly, on the community_responders store.     *)
(***************************************************************************)
\* !data.created_at: undefined, '' and 0 are all falsy
NoCreatedAt(data) == data.created_at = NoTime \/ data.created_at = 0

\* the record store.add(data) stores for a data object without id: add
\* stamps created_at, the key generator supplies the id
Added(data, id) ==
  [data EXCEPT !.id = id, !.created_at = IF NoCreatedAt(data) THEN now ELSE @]

\* dbManager.add('community_responders', data), data without an id
DbAdd(data) ==
  /\ nextId["community_responders"] <= MaxRecords
  /\ community_responders' = community_responders \cup {Added(data, nextId["community_responders"])}
  /\ issued' = issued \cup {nextId["community_responders"]}
  /\ nextId' = Bump("community_responders")
  /\ given' = data
  /\ result' = Res("add", "ok", nextId["community_responders"], "none")
  /\ UNCHANGED <<users, emergency_contacts, sos_alerts, user_preferences, location_history,
                 safe_zones, evidence, now, got, list,
                 sessionVars, queueVars, online, schemaVars, pass, preferences, sosVars, calls>>

\* dbManager.get('community_responders', id)
DbGet(id) ==
  /\ got' = Get(community_responders, id, NoResponder)
  /\ result' = Res("get", IF got' = NoResponder THEN "undefined" ELSE "ok", id, "none")
  /\ UNCHANGED <<users, emergency_contacts, sos_alerts, user_preferences, location_history,
                 safe_zones, community_responders, evidence, issued, now, given, list, nextId,
                 sessionVars, queueVars, online, schemaVars, pass, preferences, sosVars, calls>>

\* the key generator after store.put stored a record under the key id
AfterPut(name, id) == [nextId EXCEPT ![name] = IF id >= @ THEN id + 1 ELSE @]

\* DbUpdate that replaces a stored record only and reports an absent key
DbUpdateStoredOnly(data) ==
  /\ given' = data
  /\ IF \E r \in community_responders : r.id = data.id
       THEN /\ community_responders' = Put(community_responders, data)
            /\ result' = Res("update", "ok", data.id, "none")
       ELSE /\ result' = Res("update", "not_found", data.id, "none")
            /\ UNCHANGED community_responders
  /\ UNCHANGED <<users, emergency_contacts, sos_alerts, user_preferences, location_history,
                 safe_zones, evidence, issued, now, got, list, nextId,
                 sessionVars, queueVars, online, schemaVars, pass, preferences, sosVars, calls>>

\* dbManager.update('community_responders', data), data with an id
DbUpdate(data) ==
  /\ given' = data
  /\ community_responders' = Put(community_responders, data)
  /\ nextId' = AfterPut("community_responders", data.id)
  /\ result' = Res("update", "ok", data.id, "none")
  /\ UNCHANGED <<users, emergency_contacts, sos_alerts, user_preferences, location_history,
                 safe_zones, evidence, issued, now, got, list,
                 sessionVars, queueVars, online, schemaVars, pass, preferences, sosVars, calls>>

\* dbManager.delete('community_responders', id)
DbDelete(id) ==
  /\ community_responders' = Delete(community_responders, id)
  /\ result' = Res("delete", "ok", id, "none")
  /\ UNCHANGED <<users, emergency_contacts, sos_alerts, user_preferences, location_history,
                 safe_zones, evidence, issued, now, given, got, list, nextId,
                 sessionVars, queueVars, online, schemaVars, pass, preferences, sosVars, calls>>

\* time passes
Tick ==
  /\ now < MaxTime
  /\ now' = now + 1
  /\ result' = NoResult
  /\ UNCHANGED <<users, emergency_contacts, sos_alerts, user_preferences, location_history,
                 safe_zones, community_responders, evidence, issued, given, got, list, nextId,
                 sessionVars, queueVars, online, schemaVars, pass, preferences, sosVars, calls>>

(***************************************************************************)
(* EvidenceManager.                                                        *)
(***************************************************************************)
\* CONFIG.EVIDENCE.MAX_FILE_SIZE, 50 MB
MAX_FILE_SIZE == 50 * 1024 * 1024

\* getEvidenceType that files a type on none of the lists as a document
GetEvidenceTypeOrDocument(mimeType) ==
  IF mimeType \in {"image/jpeg", "image/png", "image/gif", "image/webp"} THEN "photo"
  ELSE IF mimeType \in {"video/mp4", "video/webm", "video/ogg"} THEN "video"
  ELSE IF mimeType \in {"audio/mp3", "audio/wav", "audio/ogg", "audio/webm"} THEN "audio"
  ELSE "document"

\* getEvidenceType(mimeType); "null" for a type on none of the lists
GetEvidenceType(mimeType) ==
  IF mimeType \in {"image/jpeg", "image/png", "image/gif", "image/webp"} THEN "photo"
  ELSE IF mimeType \in {"video/mp4", "video/webm", "video/ogg"} THEN "video"
  ELSE IF mimeType \in {"audio/mp3", "audio/wav", "audio/ogg", "audio/webm"} THEN "audio"
  ELSE "null"

\* addEvidence(file) for a file with file.type = mimeType and file.size =
\* size: the checks, the evidence record with created_at set to the time of
\* the call, then the post of sendEvidenceMetadata
AddEvidence(mimeType, size, outcome) ==
  /\ given' = [type |-> mimeType, size |-> size]
  /\ IF currentUser = NoUser
       THEN /\ result' = Res("addEvidence", "not_logged_in", NoId, "none")
            /\ UNCHANGED <<evidence, nextId, queueVars>>
       ELSE IF size > MAX_FILE_SIZE
         THEN /\ result' = ResFor("addEvidence", "file_too_large", NoId, currentUser.id)
              /\ UNCHANGED <<evidence, nextId, queueVars>>
         ELSE IF GetEvidenceType(mimeType) = "null"
           THEN /\ result' = ResFor("addEvidence", "unsupported_file", NoId, currentUser.id)
                /\ UNCHANGED <<evidence, nextId, queueVars>>
           ELSE /\ nextId["evidence"] <= MaxEvidence
                /\ RequestFits(outcome)
                /\ evidence' = evidence \cup
                     {[id |-> nextId["evidence"], user_id |-> currentUser.id,
                       type |-> GetEvidenceType(mimeType), file_size |-> size, created_at |-> now]}
                /\ nextId' = Bump("evidence")
                /\ offlineQueue' = QueueAfterRequest("evidence", outcome)
                /\ lsOfflineQueue' = StoredAfterRequest("evidence", outcome)
                /\ result' = [ResFor("addEvidence", "ok", nextId["evidence"], currentUser.id)
                                EXCEPT !.req = "evidence"]
  /\ UNCHANGED <<users, emergency_contacts, sos_alerts, user_preferences, location_history,
                 safe_zones, community_responders, issued, now, got, list,
                 sessionVars, online, schemaVars, pass, preferences, sosVars, calls>>

\* deleteEvidence(evidenceId)
DeleteEvidence(evidenceId, confirmed) ==
  /\ IF ~confirmed
       THEN /\ result' = Res("deleteEvidence", "cancelled", evidenceId, "none")
            /\ UNCHANGED evidence
       ELSE /\ evidence' = Delete(evidence, evidenceId)
            /\ result' = ResFor("deleteEvidence", "ok", evidenceId, currentUser.id)
  /\ UNCHANGED <<users, emergency_contacts, sos_alerts, user_preferences, location_history,
                 safe_zones, community_responders, issued, now, given, got, list, nextId,
                 sessionVars, queueVars, online, schemaVars, pass, preferences, sosVars, calls>>

\* getEvidenceList with evidence.sort((a, b) => new Date(a.created_at) - new Date(b.created_at))
EvidenceOldestFirst(uid, filterType) ==
  LET all == ById(GetByUserId(evidence, uid))
      Wanted(e) == filterType = "null" \/ e.type = filterType
      filtered == SelectSeq(all, Wanted)
  IN SortByKey(filtered, [i \in 1..Len(filtered) |-> filtered[i].created_at])

\* the array of getEvidenceList(filterType): getByIndex on user_id, the
\* filter on type unless filterType is null, then
\* evidence.sort((a, b) => new Date(b.created_at) - new Date(a.created_at));
\* created_at is the tick the ISO string stands for
EvidenceNewestFirst(uid, filterType) ==
  LET all == ById(GetByUserId(evidence, uid))
      Wanted(e) == filterType = "null" \/ e.type = filterType
      filtered == SelectSeq(all, Wanted)
  IN SortByKey(filtered, [i \in 1..Len(filtered) |-> 0 - filtered[i].created_at])

\* getEvidenceList(filterType)
GetEvidenceList(filterType) ==
  /\ list' = IF currentUser = NoUser THEN <<>> ELSE EvidenceNewestFirst(currentUser.id, filterType)
  /\ given' = [filterType |-> filterType]
  /\ result' = ResFor("getEvidenceList", "ok", NoId, currentUser.id)
  /\ UNCHANGED <<users, emergency_contacts, sos_alerts, user_preferences, location_history,
                 safe_zones, community_responders, evidence, issued, now, got, nextId,
                 sessionVars, queueVars, online, schemaVars, pass, preferences, sosVars, calls>>

(***************************************************************************)
(* Application start: every manager is constructed anew.                   *)
(***************************************************************************)
\* page (re)load: the constructors of APIService, UserManager,
\* PreferencesManager and SOSManager, then SafeHerApp.init with its
\* db.init(), initializeDefaultData and loadAndApplyPreferences; calls and
\* timers of the old page are gone; a database of a later version makes
\* init fail, that start is OpenDatabase's
Restart ==
  /\ dbVersion <= DB_VERSION
  /\ objectStores' = IF DB_VERSION > dbVersion THEN UpgradeNeeded(objectStores, Declared) ELSE objectStores
  /\ dbVersion' = DB_VERSION
  /\ offlineQueue' = <<>>
  /\ community_responders' = community_responders \cup DefaultResponders
  /\ issued' = issued \cup {r.id : r \in DefaultResponders}
  /\ currentUser' = lsCurrentUser
  /\ LET created == lsCurrentUser # NoUser /\ GetByUserId(user_preferences, lsCurrentUser.id) = {}
     IN /\ created => nextId["user_preferences"] <= MaxPrefs
        /\ preferences' = IF lsCurrentUser = NoUser THEN NoPrefs
                          ELSE IF created THEN DefaultPrefs(nextId["user_preferences"], lsCurrentUser.id)
                          ELSE StoredPrefs(lsCurrentUser.id)
        /\ user_preferences' = IF created THEN user_preferences \cup {preferences'} ELSE user_preferences
        /\ nextId' = [nextId EXCEPT !["user_preferences"] = IF created THEN @ + 1 ELSE @,
                                    !["community_responders"] = @ + Cardinality(DefaultResponders)]
  /\ currentAlert' = NoAlert
  /\ countdownInterval' = NoId
  /\ timers' = {}
  /\ currentScreen' = "splash-screen"
  /\ pass' = [p \in Passes |-> IdlePass]
  /\ calls' = [c \in Calls |-> IdleCall]
  /\ result' = ResFor("init", "ok", NoId, lsCurrentUser.id)
  /\ UNCHANGED <<users, emergency_contacts, sos_alerts, location_history,
                 safe_zones, evidence, now, given, got, list,
                 lsCurrentUser, lsOfflineQueue, online, nextTimer>>

\* hideSplashScreen, CONFIG.UI.SPLASH_DURATION after init: home for a
\* logged-in user, the login screen otherwise
HideSplashScreen ==
  /\ currentScreen = "splash-screen"
  /\ NavigateTo(IF currentUser # NoUser THEN "home-screen" ELSE "login-screen")

\* the managers as constructed and empty object stores
InitApp ==
  /\ users = {} /\ emergency_contacts = {} /\ sos_alerts = {}
  /\ user_preferences = {} /\ location_history = {} /\ safe_zones = {}
  /\ community_responders = {} /\ evidence = {} /\ issued = {}
  /\ now = 1 /\ given = NoResponder /\ got = NoResponder /\ list = <<>>
  /\ nextId = [s \in {"users", "emergency_contacts", "sos_alerts", "user_preferences",
                      "location_history", "safe_zones", "community_responders", "evidence"} |-> 1]
  /\ lsCurrentUser = NoUser /\ lsOfflineQueue = <<>>
  /\ currentUser = NoUser
  /\ preferences = NoPrefs
  /\ offlineQueue = <<>> /\ online = TRUE
  /\ pass = [p \in Passes |-> IdlePass]
  /\ currentAlert = NoAlert /\ countdownInterval = NoId /\ timers = {} /\ nextTimer = 1
  /\ currentScreen = "splash-screen"
  /\ calls = [c \in Calls |-> IdleCall]
  /\ result = NoResult

\* the application opened for the first time: init has created the database
Init ==
  /\ InitApp
  /\ objectStores = Declared /\ dbVersion = DB_VERSION

\* the application before its first init: no database yet
InitNoDatabase ==
  /\ InitApp
  /\ objectStores = {} /\ dbVersion = 0

(***************************************************************************)
(* The offline queue on its own.                                           *)
(***************************************************************************)
NextQueue ==
  \/ \E req \in ReqTypes, outcome \in Outcomes : Request(req, outcome)
  \/ \E b \in BOOLEAN : SetOnline(b)
  \/ \E p \in Passes : PassStart(p)
  \/ \E p \in Passes, outcome \in Outcomes : PassReplay(p, outcome)
  \/ Restart

SpecQueue == Init /\ [][NextQueue]_vars

(***************************************************************************)
(* Accounts: registered and guest users, the session pointer.              *)
(***************************************************************************)
AnyPhone == Phones \cup {BadPhone, NoPhone}
ContactIds == 1..MaxContacts
AlertIds == 1..MaxAlerts
Priorities == {0, 1}

NextAccounts ==
  \/ \E c \in Calls, phone \in AnyPhone : RegisterBegin(c, phone)
  \/ \E c \in Calls : GuestBegin(c)
  \/ \E c \in Calls : UserAdd(c)
  \/ \E c \in Calls : UserPrefsAdd(c)
  \/ \E c \in Calls, phone \in AnyPhone : LoginBegin(c, phone)
  \/ \E c \in Calls : LoginPut(c)
  \/ Logout
  \/ \E phone \in AnyPhone : UpdateProfile(phone)
  \/ \E confirmed \in BOOLEAN : DeleteAccount(confirmed)

SpecAccounts == Init /\ [][NextAccounts]_vars

(***************************************************************************)
(* Emergency contacts of guest users.                                      *)
(***************************************************************************)
NextContacts ==
  \/ \E c \in Calls : GuestBegin(c)
  \/ \E c \in Calls : UserAdd(c)
  \/ \E c \in Calls : UserPrefsAdd(c)
  \/ Logout
  \/ \E confirmed \in BOOLEAN : DeleteAccount(confirmed)
  \/ \E priority \in Priorities : AddContact(priority)
  \/ \E id \in ContactIds, priority \in Priorities : UpdateContact(id, priority)
  \/ \E id \in ContactIds : ToggleContact(id)
  \/ \E id \in ContactIds, confirmed \in BOOLEAN : DeleteContact(id, confirmed)

SpecContacts == Init /\ [][NextContacts]_vars

(***************************************************************************)
(* SOS alerts of guest users, with the countdown of the SOS screen.        *)
(***************************************************************************)
Locations == Points \cup {NoCoord}

NextSOS ==
  \/ \E c \in Calls : GuestBegin(c)
  \/ \E c \in Calls : UserAdd(c)
  \/ \E c \in Calls : UserPrefsAdd(c)
  \/ Logout
  \/ \E location \in Locations, outcome \in Outcomes : TriggerSOS(location, outcome)
  \/ CancelSOS
  \/ \E id \in AlertIds : ResolveSOS(id)
  \/ \E screenId \in {"home-screen", "sos-screen"} : NavigateTo(screenId)
  \/ \E id \in 1..MaxTimers : CountdownTick(id)
  \/ \E id \in 1..MaxTimers, location \in Locations, outcome \in Outcomes : CountdownFire(id, location, outcome)

SpecSOS == Init /\ [][NextSOS]_vars

(***************************************************************************)
(* Preferences of registered and guest users.                              *)
(***************************************************************************)
NextPrefs ==
  \/ \E c \in Calls, phone \in AnyPhone : RegisterBegin(c, phone)
  \/ \E c \in Calls : GuestBegin(c)
  \/ \E c \in Calls : UserAdd(c)
  \/ \E c \in Calls : UserPrefsAdd(c)
  \/ \E c \in Calls, phone \in AnyPhone : LoginBegin(c, phone)
  \/ \E c \in Calls : LoginPut(c)
  \/ Logout
  \/ \E c \in Calls : GetPreferencesBegin(c)
  \/ \E c \in Calls : GetPreferencesCreate(c)
  \/ \E c \in Calls, theme \in Themes : UpdatePreferencesBegin(c, theme)
  \/ \E c \in Calls : UpdatePreferencesCreate(c)
  \/ \E c \in Calls : UpdatePreferencesPut(c)
  \/ \E c \in Calls, confirmed \in BOOLEAN : ResetPreferencesBegin(c, confirmed)
  \/ \E c \in Calls : ResetPreferencesCreate(c)

SpecPrefs == Init /\ [][NextPrefs]_vars

(***************************************************************************)
(* Ratings of community responders.                                        *)
(***************************************************************************)
\* the ratings handed to rateResponder: 2, 5, 6, -1 and undefined
Ratings == {2 * Scale, 5 * Scale, 6 * Scale, 0 - Scale, NaN}
\* the responder ids handed to rateResponder
RatedIds == {1}

NextRatings ==
  \/ InitializeDefaultData
  \/ AddResponder(NoCoord, NoCoord)
  \/ \E c \in Calls, id \in RatedIds, rating \in Ratings : RateResponderBegin(c, id, rating)
  \/ \E c \in Calls : RateResponderPut(c)

SpecRatings == Init /\ [][NextRatings]_vars

(***************************************************************************)
(* Responders near a point.                                                *)
(***************************************************************************)
\* latitudes of responders, in units of 1e-4 degree: the equator, then
\* 5.6 km, 6.7 km and 22 km north of it
Latitudes == {0, 500, 600, 2000}
\* the positions handed to addResponder and dbManager.add
Positions == {<<NoCoord, NoCoord>>} \cup {<<latitude, Meridian>> : latitude \in Latitudes}
\* a responder object as a caller of dbManager.add builds it
ResponderData(latitude, longitude, created_at) ==
  [id |-> NoId, latitude |-> latitude, longitude |-> longitude, rating |-> 0,
   response_count |-> 0, created_at |-> created_at]

NextNearby ==
  \/ InitializeDefaultData
  \/ \E p \in Positions : AddResponder(p[1], p[2])
  \/ \E p \in Positions : DbAdd(ResponderData(p[1], p[2], NoTime))
  \/ \E latitude \in {500}, radiusKm \in {10} : GetNearbyResponders(latitude, radiusKm)

SpecNearby == Init /\ [][NextNearby]_vars

(***************************************************************************)
(* The data layer on its own.                                              *)
(***************************************************************************)
\* created_at of the objects handed to add and update: undefined, a falsy
\* value ('' or 0) and a time stamp
CreatedAts == {NoTime, 0, 2}
RecordIds == 1..MaxRecords
StoreData == {[ResponderData(latitude, Meridian, created_at) EXCEPT !.response_count = count] :
                latitude \in {500}, created_at \in CreatedAts, count \in {0, 1}}

NextStore ==
  \/ \E data \in StoreData : DbAdd(data)
  \/ \E id \in RecordIds : DbGet(id)
  \/ \E data \in StoreData, id \in RecordIds : DbUpdate([data EXCEPT !.id = id])
  \/ \E id \in RecordIds : DbDelete(id)
  \/ Tick

SpecStore == Init /\ [][NextStore]_vars

(***************************************************************************)
(* Safe zones of guest users.                                              *)
(***************************************************************************)
\* centres of safe zones: 100000 and a point 222 m north of it
ZoneLatitudes == {100000, 100020}
\* radius arguments of addSafeZone, in metres; 100 is the default
Radii == {100, 1000}
ZoneIds == 1..MaxZones

NextZones ==
  \/ \E c \in Calls : GuestBegin(c)
  \/ \E c \in Calls : UserAdd(c)
  \/ \E c \in Calls : UserPrefsAdd(c)
  \/ Logout
  \/ \E latitude \in ZoneLatitudes, radius \in Radii : AddSafeZone(latitude, radius)
  \/ \E id \in ZoneIds : DeleteSafeZone(id)
  \/ \E id \in ZoneIds : DeactivateSafeZone(id)
  \/ \E latitude \in Points : CheckSafeZone(latitude)

SpecZones == Init /\ [][NextZones]_vars

(***************************************************************************)
(* The contact list of guest users.                                        *)
(***************************************************************************)
NextContactList ==
  \/ \E c \in Calls : GuestBegin(c)
  \/ \E c \in Calls : UserAdd(c)
  \/ \E c \in Calls : UserPrefsAdd(c)
  \/ Logout
  \/ \E priority \in Priorities : AddContact(priority)
  \/ \E id \in ContactIds, priority \in Priorities : UpdateContact(id, priority)
  \/ GetContacts

SpecContactList == Init /\ [][NextContactList]_vars

(***************************************************************************)
(* The evidence vault of guest users.                                      *)
(***************************************************************************)
\* file.type of the files handed to addEvidence; text/plain is unsupported
MimeTypes == {"image/png", "video/mp4", "text/plain"}
\* file.size of the files handed to addEvidence
Sizes == {1024}
\* filterType of getEvidenceList; "null" for none
FilterTypes == {"null", "photo", "video"}
EvidenceIds == 1..MaxEvidence

NextEvidence ==
  \/ \E c \in Calls : GuestBegin(c)
  \/ \E c \in Calls : UserAdd(c)
  \/ \E c \in Calls : UserPrefsAdd(c)
  \/ Logout
  \/ Tick
  \/ \E mimeType \in MimeTypes, size \in Sizes, outcome \in {"ok", "network_error"} :
       AddEvidence(mimeType, size, outcome)
  \/ \E id \in EvidenceIds, confirmed \in BOOLEAN : DeleteEvidence(id, confirmed)
  \/ \E filterType \in FilterTypes : GetEvidenceList(filterType)

SpecEvidence == Init /\ [][NextEvidence]_vars

(***************************************************************************)
(* The schema of the database over the releases of the application.        *)
(***************************************************************************)
\* the declarations of declared without the store name
WithoutStore(declared, name) == {d \in declared : d.name # name}
\* the declarations of declared without the index of the store name
WithoutIndex(declared, name, index) ==
  {IF d.name = name THEN ObjectStore(d.name, d.indexes \ {index}) ELSE d : d \in declared}
\* what the handler declares, and what releases before it declared: no
\* risk_detections store yet, no email index on users yet, neither of them
Releases ==
  {Declared, WithoutStore(Declared, "risk_detections"), WithoutIndex(Declared, "users", "email"),
   WithoutIndex(WithoutStore(Declared, "risk_detections"), "users", "email")}
\* this.version of the releases
Versions == 1..MaxVersion

NextSchema ==
  \/ \E version \in Versions, declared \in Releases : OpenDatabase(version, declared)
  \/ Contains(objectStores, "community_responders") /\ \E data \in StoreData : DbAdd(data)
  \/ Contains(objectStores, "community_responders") /\ \E id \in RecordIds : DbDelete(id)

SpecSchema == InitNoDatabase /\ [][NextSchema]_vars

(***************************************************************************)
(* Files handed to the evidence vault, online and offline.                 *)
(***************************************************************************)
\* file.size of the files handed to addEvidence: 1 KiB, 50 MiB, one byte more
VaultSizes == {1024, MAX_FILE_SIZE, MAX_FILE_SIZE + 1}
\* file.type of the files: a video, a document
VaultTypes == {"video/webm", "application/pdf"}

NextVault ==
  \/ \E c \in Calls : GuestBegin(c)
  \/ \E c \in Calls : UserAdd(c)
  \/ \E c \in Calls : UserPrefsAdd(c)
  \/ \E b \in BOOLEAN : SetOnline(b)
  \/ \E mimeType \in VaultTypes, size \in VaultSizes, outcome \in {"ok", "network_error"} :
       AddEvidence(mimeType, size, outcome)

SpecVault == Init /\ [][NextVault]_vars

(***************************************************************************)
(* The session pointer over logins, logouts and restarts.                  *)
(***************************************************************************)
NextSession ==
  \/ \E c \in Calls, phone \in AnyPhone : RegisterBegin(c, phone)
  \/ \E c \in Calls : GuestBegin(c)
  \/ \E c \in Calls : UserAdd(c)
  \/ \E c \in Calls : UserPrefsAdd(c)
  \/ \E c \in Calls, phone \in AnyPhone : LoginBegin(c, phone)
  \/ \E c \in Calls : LoginPut(c)
  \/ Logout
  \/ \E confirmed \in BOOLEAN : DeleteAccount(confirmed)
  \/ Restart
  \/ HideSplashScreen

SpecSession == Init /\ [][NextSession]_vars

(***************************************************************************)
(* The countdown of the SOS screen with its timer running: setInterval     *)
(* keeps calling the callback of a live timer.  The SOS screen is entered  *)
(* by a logged-in user only.                                               *)
(***************************************************************************)
TimerIds == 1..MaxTimers

\* navigateTo(CONFIG.SCREENS.SOS) by a logged-in user
EnterSOSScreen == currentUser # NoUser /\ NavigateTo("sos-screen")

NextCountdown ==
  \/ \E c \in Calls : GuestBegin(c)
  \/ \E c \in Calls : UserAdd(c)
  \/ \E c \in Calls : UserPrefsAdd(c)
  \/ Logout
  \/ CancelSOS
  \/ NavigateTo("home-screen")
  \/ EnterSOSScreen
  \/ \E id \in TimerIds : CountdownTick(id)
  \/ \E id \in TimerIds, location \in Locations, outcome \in {"ok", "network_error"} :
       CountdownFire(id, location, outcome)

SpecCountdown ==
  /\ Init /\ [][NextCountdown]_vars
  /\ WF_vars(\E id \in TimerIds : CountdownTick(id))
  /\ WF_vars(\E id \in TimerIds, location \in Locations, outcome \in {"ok", "network_error"} :
               CountdownFire(id, location, outcome))

(***************************************************************************)
(* Deleting a responder while it is being rated.                           *)
(***************************************************************************)
\* the responder ids handed to rateResponder and to delete
RemovedIds == {1, 2}

NextRemoval ==
  \/ DbAdd(ResponderData(NoCoord, NoCoord, NoTime))
  \/ \E c \in Calls, id \in RemovedIds : RateResponderBegin(c, id, 5 * Scale)
  \/ \E c \in Calls : RateResponderPut(c)
  \/ \E id \in RemovedIds : DbDelete(id)
  \/ \E id \in RemovedIds : DbGet(id)

SpecRemoval == Init /\ [][NextRemoval]_vars

(***************************************************************************)
(* Properties.                                                             *)
(***************************************************************************)
Owned(store) == \A r \in store : \E u \in users : u.id = r.user_id

\* C1: every user-scoped record references an existing users record, so
\* after deleteAccount no record of the deleted user remains.
C1_ReferentialIntegrity ==
  /\ Owned(emergency_contacts) /\ Owned(sos_alerts) /\ Owned(user_preferences)
  /\ Owned(location_history) /\ Owned(safe_zones)

\* C2: a pass of processOfflineQueue starts from the persisted queue, hands
\* its elements to request one per step in queue order, and the step that
\* attempts the last element leaves the persisted and the in-memory queue
\* empty, whatever the outcomes were.
C2_ReplayFifoThenEmpty ==
  [][\A p \in Passes :
       /\ pass[p].pc # "replay" /\ pass'[p].pc = "replay" => pass'[p].queue = lsOfflineQueue
       /\ pass[p].pc = "replay" /\ pass'[p] # pass[p] /\ pass'[p].pc # "idle" =>
            /\ pass'[p].queue = pass[p].queue
            /\ Len(pass'[p].results) = Len(pass[p].results) + 1
            /\ \A i \in 1..Len(pass'[p].results) : pass'[p].results[i].req = pass'[p].queue[i]
       /\ pass[p].pc = "replay" /\ pass'[p].pc = "done" =>
            /\ Len(pass'[p].results) = Len(pass'[p].queue)
            /\ lsOfflineQueue' = <<>>
            /\ offlineQueue' = <<>>
       /\ pass'[p].pc = "replay" => Len(pass'[p].results) < Len(pass'[p].queue)]_vars

\* C2 witness: a pass over three queued requests has ended, its second
\* replay failed, and both queues are empty.
C2_Witness ==
  \E p \in Passes :
    /\ pass[p].pc = "done" /\ Len(pass[p].queue) = 3
    /\ pass[p].results[1].success /\ ~pass[p].results[2].success
    /\ result.op = "processOfflineQueue"
    /\ lsOfflineQueue = <<>> /\ offlineQueue = <<>>

\* C3: a request that is queued is appended to the persisted queue: the
\* persisted queue afterwards is the persisted queue before followed by it.
C3_EnqueueAppends ==
  [][result'.op = "request" /\ result'.status = "queued" =>
       lsOfflineQueue' = Append(lsOfflineQueue, result'.req)]_vars

\* C4: every request that fails is put on the offline queue, whatever the
\* cause and whatever navigator.onLine reads.
C4_FailedRequestQueued ==
  result.op = "request" => result.status \in {"ok", "queued"}

\* C5: an alert whose status is cancelled or resolved keeps that status.
C5_TerminalStatusStays ==
  [][\A a \in sos_alerts : a.status \in {"cancelled", "resolved"} =>
       \A b \in sos_alerts' : b.id = a.id => b.status = a.status]_vars

\* C6: no user has more than one stored alert with status active.
C6_OneActiveAlert ==
  \A u \in users :
    Cardinality({a \in sos_alerts : a.user_id = u.id /\ a.status = "active"}) <= 1

\* C7: no two users records share a non-null phone_number; a step that
\* reports a constraint error leaves the users store as it was; the insert
\* of a guest user (null phone_number) always adds its record.
C7_PhoneNumberUnique ==
  [][/\ \A u, v \in users' :
          u.id # v.id /\ u.phone_number # NoPhone => u.phone_number # v.phone_number
     /\ result'.status = "ConstraintError" => users' = users
     /\ \A c \in Calls :
          calls[c].op = "continueAsGuest" /\ calls[c].pc = "add_user" /\ calls'[c] # calls[c] =>
            /\ Cardinality(users') = Cardinality(users) + 1
            /\ \E u \in users' \ users : u.phone_number = NoPhone /\ u.is_guest]_vars

\* C7 witness: updateProfile of a user was rejected with a constraint error
\* while a guest user with null phone_number is stored next to a registered
\* one.
C7_Witness ==
  /\ result.op = "updateProfile" /\ result.status = "ConstraintError"
  /\ \E u \in users : u.phone_number = NoPhone
  /\ \E u \in users : u.phone_number # NoPhone

\* C8: a step taken while user U is logged in neither modifies nor deletes
\* an emergency contact or an SOS alert whose user_id is not U.id.
C8_IsolatedByUserId ==
  [][currentUser # NoUser =>
       /\ \A r \in emergency_contacts : r.user_id # currentUser.id => r \in emergency_contacts'
       /\ \A a \in sos_alerts : a.user_id # currentUser.id => a \in sos_alerts']_vars

\* C9: at most one user_preferences row per user_id.
C9_OnePrefsRowPerUser ==
  \A p, q \in user_preferences : p.user_id = q.user_id => p.id = q.id

\* C9 witness: a second createDefaultPreferences for a user who has a row
\* was rejected by the store.
C9_Witness ==
  /\ result.op \in {"getPreferences", "resetPreferences"}
  /\ result.status \in {"undefined", "ConstraintError"}
  /\ GetByUserId(user_preferences, result.uid) # {}

\* C10: getPreferences called for a logged-in user returns that user's
\* preferences record, and exactly one row of the user exists afterwards;
\* the calls in flight next to it are other getPreferences calls.
C10_GetPreferencesReturnsRecord ==
  /\ result.op = "getPreferences" /\ result.uid # NoId
  /\ \A c \in Calls : calls[c].op \in {"idle", "getPreferences"}
  =>
    /\ result.status = "prefs"
    /\ \E p \in user_preferences : p.id = result.id /\ p.user_id = result.uid
    /\ Cardinality(GetByUserId(user_preferences, result.uid)) = 1

\* a number within [0, 5]
InRange(rating) == rating # NaN /\ 0 <= rating /\ rating <= 5 * Scale

\* C11: every rateResponder call with an in-range rating r that completes
\* successfully raises the stored response_count by exactly one and turns
\* the stored rating R with count C into (R*C + r) / (C + 1), whatever other
\* calls read or wrote between its read and its write; n such calls then
\* leave C + n and (R*C + r1 + ... + rn) / (C + n).
C11_EachRatingCountsOnce ==
  [][\A c \in Calls :
       /\ calls[c].op = "rateResponder" /\ calls'[c].op = "idle"
       /\ result'.status = "ok" /\ InRange(calls[c].rating)
       => LET before == Get(community_responders, calls[c].responder.id, NoResponder)
              after == Get(community_responders', calls[c].responder.id, NoResponder)
          IN InRange(before.rating) =>
               /\ after.response_count = before.response_count + 1
               /\ after.rating = (before.rating * before.response_count + calls[c].rating)
                                   \div (before.response_count + 1)]_vars

\* C12: every stored responder has a rating within [0, 5], and no step of
\* addResponder, rateResponder or initializeDefaultData lowers the
\* response_count of a stored responder.
C12_RatingInRangeCountMonotone ==
  [][\A r \in community_responders' :
       /\ InRange(r.rating)
       /\ \A q \in community_responders : q.id = r.id => r.response_count >= q.response_count]_vars

\* C13: no rateResponder call goes on to the store with a rating that is
\* not a number within [0, 5], and a call that fails, for its rating or for
\* an unknown responder id, leaves the community_responders store as it was.
C13_BadRatingRejected ==
  [][/\ \A c \in Calls : calls'[c].op = "rateResponder" => InRange(calls'[c].rating)
     /\ result'.op = "rateResponder" /\ result'.status # "ok" =>
          community_responders' = community_responders]_vars

\* the metres between a responder and a point of the same meridian
MetresTo(r, latitude) == (Abs(r.latitude - latitude) * 111195) \div 10000

\* C14: getNearbyResponders returns exactly the responders whose latitude
\* and longitude are not null (0 is a coordinate) and that lie within
\* radiusKm of the point, each with its distance, nearest first.
C14_NearbyExactlyWithinRadius ==
  result.op = "getNearbyResponders" =>
    LET within == {r \in community_responders :
                     /\ r.latitude # NoCoord /\ r.longitude # NoCoord
                     /\ MetresTo(r, given.latitude) <= given.radiusKm * 1000}
    IN /\ {list[i].id : i \in 1..Len(list)} = {r.id : r \in within}
       /\ Len(list) = Cardinality(within)
       /\ \A i \in 1..Len(list) :
            \E r \in within : r.id = list[i].id /\ list[i].distance = MetresTo(r, given.latitude)
       /\ \A i, j \in 1..Len(list) : i < j => list[i].distance <= list[j].distance

\* C18: dbManager.add returns an id that no stored record holds and that no
\* earlier add returned, not even for a record deleted since; get of that
\* id then returns the inserted object with the id added, created_at set to
\* the time of the call when the caller gave none, and a created_at the
\* caller gave left as it was.
C18_AddRoundTripFreshKey ==
  [][result'.op = "add" =>
       LET stored == Get(community_responders', result'.id, NoResponder)
       IN /\ result'.id \notin issued
          /\ \A r \in community_responders : r.id # result'.id
          /\ stored = [given' EXCEPT !.id = result'.id,
                                     !.created_at = IF @ = NoTime THEN now ELSE @]]_vars

C15_InSafeZoneIffActiveOwnZone ==
  result.op = "isInSafeZone" =>
    (result.status = "true" <=>
       /\ currentUser # NoUser
       /\ \E zone \in safe_zones :
            /\ zone.user_id = currentUser.id /\ zone.is_active
            /\ (Abs(given.latitude - zone.latitude) * 111195) \div 10000 <= zone.radius)

\* C15 witness: isInSafeZone answered false for a point that lies within an
\* inactive zone of the current user and within an active zone of another
\* user.
C15_Witness ==
  /\ result.op = "isInSafeZone" /\ result.status = "false" /\ currentUser # NoUser
  /\ \E zone \in safe_zones :
       /\ zone.user_id = currentUser.id /\ ~zone.is_active
       /\ CalculateDistance(given.latitude, zone.latitude) <= zone.radius
  /\ \E zone \in safe_zones :
       /\ zone.user_id # currentUser.id /\ zone.is_active
       /\ CalculateDistance(given.latitude, zone.latitude) <= zone.radius

\* C16: getContacts returns exactly the emergency contacts of the current
\* user, each once, highest priority first, and contacts of equal priority
\* in ascending order of id.
C16_ContactsByPriorityStable ==
  result.op = "getContacts" /\ currentUser # NoUser =>
    /\ {list[i] : i \in 1..Len(list)} = {r \in emergency_contacts : r.user_id = currentUser.id}
    /\ \A i, j \in 1..Len(list) : i < j =>
         /\ list[i].id # list[j].id
         /\ list[i].priority >= list[j].priority
         /\ list[i].priority = list[j].priority => list[i].id < list[j].id

\* C16 witness: getContacts returned three contacts, the one stored second
\* first for its higher priority, then the first and the third, which have
\* equal priority, in the order they were stored.
C16_Witness ==
  /\ result.op = "getContacts" /\ Len(list) = 3
  /\ list[1].id = 2 /\ list[2].id = 1 /\ list[3].id = 3
  /\ list[1].priority > list[2].priority /\ list[2].priority = list[3].priority

\* C17: getEvidenceList returns exactly the evidence records of the
\* current user whose type is the filter type, all of them without a
\* filter, each once, newest created_at first.
C17_EvidenceFilteredNewestFirst ==
  result.op = "getEvidenceList" /\ currentUser # NoUser =>
    /\ {list[i] : i \in 1..Len(list)} =
         {e \in evidence : /\ e.user_id = currentUser.id
                           /\ given.filterType # "null" => e.type = given.filterType}
    /\ \A i, j \in 1..Len(list) : i < j =>
         /\ list[i].id # list[j].id
         /\ list[i].created_at >= list[j].created_at

\* C17 witness: getEvidenceList('photo') returned two photos, the one added
\* later first, while the user also has a stored video.
C17_Witness ==
  /\ result.op = "getEvidenceList" /\ given.filterType = "photo"
  /\ Len(list) = 2 /\ list[1].created_at > list[2].created_at /\ list[1].id > list[2].id
  /\ \E e \in evidence : e.user_id = currentUser.id /\ e.type = "video"

\* C20: when a database call made inside register, continueAsGuest,
\* updatePreferences or resetPreferences is rejected by the store, the step
\* in which the operation returns hands back a failure, not a success.
C20_RejectedCallFailsOperation ==
  [][\A c \in Calls :
       /\ calls[c].op \in {"register", "continueAsGuest", "updatePreferences", "resetPreferences"}
       /\ calls'[c] # calls[c]
       /\ \/ calls[c].pc = "add_user"
               /\ ~PhoneUnique(users, [id |-> nextId["users"], phone_number |-> calls[c].phone,
                                       is_guest |-> calls[c].op = "continueAsGuest"])
          \/ calls[c].pc \in {"add_prefs", "create"} /\ PrefsAddRejected(calls[c].uid)
          \/ calls[c].pc = "put_prefs"
               /\ ~UserIdUnique(user_preferences,
                                [id |-> calls[c].pid, user_id |-> calls[c].uid, theme |-> calls[c].theme])
       => /\ result'.op = calls[c].op
          /\ result'.status \notin {"ok", "prefs", "none"}]_vars

\* the records of all object stores
Records == <<users, emergency_contacts, sos_alerts, user_preferences, location_history,
             safe_zones, community_responders, evidence>>

C22_EvidenceCappedAtWrite ==
  [][result'.op = "addEvidence" =>
       /\ given'.size > 50 * 1024 * 1024
            \/ given'.type \notin {"image/jpeg", "image/png", "image/gif", "image/webp",
                                   "video/mp4", "video/webm", "video/ogg",
                                   "audio/mp3", "audio/wav", "audio/ogg", "audio/webm"} =>
            /\ result'.status \notin {"ok", "none"}
            /\ evidence' = evidence
            /\ result'.req = "none"
            /\ offlineQueue' = offlineQueue /\ lsOfflineQueue' = lsOfflineQueue
       /\ evidence \subseteq evidence'
       /\ \A e \in evidence' \ evidence :
            /\ e.file_size = given'.size /\ e.file_size <= 50 * 1024 * 1024
            /\ e.type \in {"photo", "video", "audio"}
            /\ result'.status = "ok" /\ result'.id = e.id]_vars

\* C22 witness: addEvidence has stored a file of exactly MAX_FILE_SIZE and
\* has then turned down a larger one; the vault holds the one record.
C22_Witness ==
  /\ result.op = "addEvidence" /\ result.status = "file_too_large"
  /\ \E e \in evidence : e.file_size = MAX_FILE_SIZE /\ e.user_id = result.uid
  /\ \A e \in evidence : e.file_size <= MAX_FILE_SIZE

Live(id) == \E t \in timers : t.id = id

\* a step in which the countdown id ends by cancelSOS, by navigateTo for
\* another screen or by a new startCountdown
Stopped(id) ==
  /\ Live(id) /\ ~Live(id)'
  /\ \/ result'.op = "cancelSOS" /\ result'.status = "ok"
     \/ currentScreen' # "sos-screen"
     \/ nextTimer' # nextTimer

\* a step in which the countdown id ends with its last tick and triggerSOS
\* stores one active alert of the current user; location_lat may be null
LoggedAlert(id) ==
  /\ Live(id) /\ ~Live(id)'
  /\ \E t \in timers : t.id = id /\ t.count = 1
  /\ result'.op = "triggerSOS" /\ result'.status = "ok"
  /\ currentUser # NoUser /\ result'.uid = currentUser.id
  /\ Cardinality(sos_alerts' \ sos_alerts) = 1 /\ sos_alerts \subseteq sos_alerts'
  /\ \E a \in sos_alerts' \ sos_alerts :
       a.id = result'.id /\ a.status = "active" /\ a.user_id = currentUser.id

\* a step in which the countdown id ends with its last tick while nobody is
\* logged in: triggerSOS is called and fails, no alert is stored
NobodyLoggedIn(id) ==
  /\ Live(id) /\ ~Live(id)'
  /\ \E t \in timers : t.id = id /\ t.count = 1
  /\ currentUser = NoUser
  /\ result'.op = "triggerSOS" /\ result'.status = "not_logged_in"
  /\ sos_alerts' = sos_alerts

\* C24: a countdown that is started for a logged-in user ends; unless cancelSOS, navigation or a
\* new countdown stops it, it ends with its last tick, COUNTDOWN_SECONDS
\* ticks after its start, by one call of triggerSOS that stores one active
\* alert with the user's id, with or without a location; a countdown that
\* has ended does not come back.
C24_CountdownLogsAlert ==
  /\ [][\A id \in TimerIds :
          /\ Live(id) /\ ~Live(id)' => Stopped(id) \/ LoggedAlert(id)
          /\ ~Live(id) /\ id < nextTimer => ~Live(id)'
          /\ ~Live(id) /\ Live(id)' => \E t \in timers' : t.id = id /\ t.count = COUNTDOWN_SECONDS]_vars
  /\ \A id \in TimerIds : Live(id) ~> ~Live(id)

\* the statement of C24 for a user who is still logged in when the
\* countdown reaches zero; when nobody is logged in then, triggerSOS is
\* called once and fails.
CountdownLogsAlertWhileLoggedIn ==
  /\ [][\A id \in TimerIds :
          /\ Live(id) /\ ~Live(id)' => Stopped(id) \/ LoggedAlert(id) \/ NobodyLoggedIn(id)
          /\ ~Live(id) /\ id < nextTimer => ~Live(id)'
          /\ ~Live(id) /\ Live(id)' => \E t \in timers' : t.id = id /\ t.count = COUNTDOWN_SECONDS]_vars
  /\ \A id \in TimerIds : Live(id) ~> ~Live(id)

\* C25: when cancelSOS returns success, countdownInterval is null and no
\* interval timer is live, so no countdown goes on to triggerSOS unless
\* startCountdown is called again; this holds with and without a current
\* alert.
C25_CancelStopsCountdown ==
  [][result'.op = "cancelSOS" /\ result'.status = "ok" =>
       countdownInterval' = NoId /\ timers' = {}]_vars

\* C26: whenever sosManager.currentAlert is not null, the sos_alerts record
\* with its id is stored, has status active and belongs to the current
\* user.
C26_CurrentAlertIsActiveAlertOfUser ==
  currentAlert # NoAlert =>
    /\ currentUser # NoUser
    /\ \E a \in sos_alerts :
         a.id = currentAlert.id /\ a.status = "active" /\ a.user_id = currentUser.id

\* C27: when a pass of processOfflineQueue removes the persisted queue,
\* every request in it is one the pass has handed to request(...): none
\* leaves the persisted queue without a replay, also not one that was
\* queued while the pass was waiting for a replay.
C27_NoQueuedRequestLostUnattempted ==
  [][\A p \in Passes :
       pass[p].pc = "replay" /\ pass'[p].pc = "done" =>
         \A i \in 1..Len(lsOfflineQueue) :
           \E j \in 1..Len(pass'[p].results) : pass'[p].results[j].req = lsOfflineQueue[i]]_vars

\* C28: a deleted record never reappears: a key the store has issued and
\* under which it holds no record (the record was deleted) holds no record
\* after any later step, also not after the write of a read-modify-write
\* operation that read the record before the delete.
C28_DeletedNeverReappears ==
  [][\A id \in issued :
       Get(community_responders, id, NoResponder) = NoResponder =>
         Get(community_responders', id, NoResponder) = NoResponder]_vars

\* C29: at any time at most one countdown timer is live, it is the one
\* sosManager.countdownInterval names and it runs on the SOS screen only;
\* a step that leaves the SOS screen for another screen leaves no timer
\* live and countdownInterval null; and a timer that was set and is no
\* longer live never becomes live again, so the callback that calls
\* triggerSOS never runs for it.
C29_NavigationCancelsCountdown ==
  /\ [](/\ Cardinality(timers) <= 1
        /\ \A t \in timers : t.id = countdownInterval /\ currentScreen = "sos-screen")
  /\ [][/\ currentScreen = "sos-screen" /\ currentScreen' # "sos-screen" =>
             timers' = {} /\ countdownInterval' = NoId
        /\ \A id \in 1..MaxTimers :
             id < nextTimer /\ ~(\E t \in timers : t.id = id) => ~(\E t \in timers' : t.id = id)]_vars

\* a logged-in user has started two countdowns and left the SOS screen
\* during the second: no timer is live and no alert was logged
C29_Witness ==
  /\ currentUser # NoUser /\ currentScreen = "home-screen" /\ nextTimer > 2
  /\ timers = {} /\ countdownInterval = NoId /\ sos_alerts = {}

\* C30: resetPreferences touches only the row of the current user: the
\* step of a confirmed resetPreferences that issues its delete removes no
\* row of another user, and when the call returns, the user who made it
\* has exactly one user_preferences row, holding the default values.
C30_ResetTouchesOnlyOwnRow ==
  [][/\ \A c \in Calls :
          calls[c].op = "idle" /\ calls'[c].op = "resetPreferences" =>
            \A p \in user_preferences : p.user_id # currentUser.id => p \in user_preferences'
     /\ result'.op = "resetPreferences" /\ result'.status \in {"ok", "ConstraintError"} =>
          GetByUserId(user_preferences', result'.uid) \in
            {{DefaultPrefs(id, result'.uid)} : id \in 1..MaxPrefs}]_vars

====
